---- MODULE Spec2Model ----
(***************************************************************************)
(* A model of the friendlyshell command interpreter:                       *)
(*   - BaseShell (base_shell.py): the run loop, command resolution,        *)
(*     parameter checking and binding, sub-shell nesting, exit and close;  *)
(*   - auto_complete_manager (command_complete_mixin.py): the scoped       *)
(*     take-over of the readline completer and history buffer.             *)
(*                                                                         *)
(* Five specifications share the module:                                   *)
(*   SpecFind  BaseShell._find_command over every small method table       *)
(*   SpecBind  BaseShell._check_params / _execute_command over every       *)
(*             small arity and token list                                  *)
(*   Spec      BaseShell.run with nested run_subshell calls                *)
(*   SpecHist  auto_complete_manager scopes over the readline state        *)
(*   SpecComplete  CommandCompleteMixin._complete_callback over every      *)
(*             small line buffer and command table                         *)
(* Each specification leaves the variables of the others at their          *)
(* initial (idle) value.                                                   *)
(***************************************************************************)
EXTENDS Integers, Sequences, FiniteSets, TLC

(***************************************************************************)
(* Bounds of the model.                                                    *)
(***************************************************************************)
\* nested _find_command calls the interpreter allows before RecursionError
MaxRecursion == 6
\* SpecBind: the most parameters a handler declares, the most tokens on a line
MaxParams == 2
MaxKeywordOnly == 1
MaxTokens == 4
\* Spec: shell instances, nested run calls, lines left in a finite stream,
\* parameter tokens on a line
NumShells == 3
MaxDepth == 3
MaxLines == 3
MaxLineTokens == 1
\* SpecHist: entries in the history buffer, scopes open at once
MaxHistory == 2
MaxScopes == 2
\* SpecComplete: characters in the line buffer, the highest index readline
\* passes to the completion callback
MaxLineLen == 2
MaxIndex == 2

(***************************************************************************)
(* Method names.  inspect.getmembers returns members sorted by name, so    *)
(* the names are kept in one sequence in ascending string order.           *)
(***************************************************************************)
SortedNames == <<"close", "echo", "exit", "fail", "native_shell", "p", "q", "sub">>

\* what calling an alias provider yielded when it raised instead of returning
RAISES == "<raises>"

(***************************************************************************)
(* State.                                                                  *)
(***************************************************************************)
VARIABLES
    do_methods,     \* names X for which the shell has a method do_X
    alias_methods,  \* X |-> [reports, static] for every member alias_X
    found,          \* SpecFind: the last _find_command call and its outcome
    bound,          \* SpecBind: the last handler call attempted and its outcome
    constructed,    \* the shells 1..constructed have been constructed
    done,           \* shell |-> its _done flag
    parent,         \* shell |-> its _parent (NoParent for None)
    input_stream,   \* shell |-> its _input_stream ("None" or "stream")
    stack,          \* the shells whose run is active, innermost last
    remaining,      \* lines not yet read from the finite input stream
    escaped,        \* the exception that left the outermost run, or "none"
    ev,             \* the last step of the run loop
    AUTOCOMPLETE_ENABLED,  \* whether readline could be imported
    history,        \* the history buffer of readline
    completer,      \* the completer installed in readline
    files,          \* history file |-> whether it exists, and its lines
    do_functions,   \* SpecComplete: the X of do_methods whose do_X is static
    latest_matches, \* SpecComplete: self._latest_matches
    cev,            \* SpecComplete: the last call of _complete_callback
    scopes,         \* the auto_complete_manager scopes open, innermost last
    hev             \* the last step on the readline state

shellVars == <<constructed, done, parent, input_stream, stack, remaining, escaped, ev>>
vars == <<do_methods, alias_methods, found, bound,
          constructed, done, parent, input_stream, stack, remaining, escaped,
          ev, AUTOCOMPLETE_ENABLED, history, completer, files, scopes, hev,
          do_functions, latest_matches, cev>>

completeVars == <<do_functions, latest_matches, cev>>

histVars == <<AUTOCOMPLETE_ENABLED, history, completer, files, scopes, hev>>

Shells == 1..NumShells
NoParent == 0

(***************************************************************************)
(* The value each part of the state has while its specification is not    *)
(* the one being run.                                                      *)
(***************************************************************************)
NoLookup == [command_name |-> "", result |-> [kind |-> "idle", name |-> "", depth |-> 0]]

InitFindIdle ==
    /\ found = NoLookup

\* A handler is described by its signature, as inspect.signature gives it
\* for the bound method: the numbers of positional parameters without and
\* with default, whether there is a *args parameter, the numbers of
\* keyword-only parameters without and with default, and whether there is
\* a **kwargs parameter
Sig(required, optional, varargs, kwonly_required, kwonly_optional, varkw) ==
    [required |-> required, optional |-> optional, varargs |-> varargs,
     kwonly_required |-> kwonly_required,
     kwonly_optional |-> kwonly_optional, varkw |-> varkw]

\* a handler with positional parameters only
Positional(required, optional) == Sig(required, optional, FALSE, 0, 0, FALSE)

NotBound == [sig |-> Positional(0, 0), R |-> 0, T |-> 0, params |-> <<>>,
             check |-> "idle", called |-> FALSE, args |-> <<>>]

InitBindIdle ==
    /\ bound = NotBound

\* the steps of the run loop in which the shell that takes the step calls
\* self.error
ErrorOps == {"input_error", "input_error_interrupt", "parse_error",
             "not_found", "arity_error", "handler_error"}

\* the steps in which an exception deriving from Exception leaves run:
\* when the run is nested, _execute_command of the parent catches it and
\* calls self.error
EscapeErrorOps == {"AliasError", "RecursionError", "eof_error"}

NoEvent == [op |-> "none", shell |-> 0, line |-> "", handler |-> "",
            error |-> FALSE,
            params |-> <<>>, args |-> <<>>]

\* history files, completion callbacks and history entries of SpecHist
HistoryFiles == {"h1"}
NoFile == "None"
Absent == [exists |-> FALSE, lines |-> <<>>]
File(lines) == [exists |-> TRUE, lines |-> lines]
InitialFiles == {Absent, File(<<"", "b">>)}
Callbacks == {"cb1", "cb2"}
Entries == {"a", "b"}

NoScope == [path |-> "none"]
NoHistEvent == [op |-> "none", scope |-> NoScope]

\* the readline state before any scope is entered, with no history file
InitHistIdle ==
    /\ AUTOCOMPLETE_ENABLED = TRUE
    /\ history = <<>>
    /\ completer = "None"
    /\ files = [f \in HistoryFiles |-> Absent]
    /\ scopes = <<>>
    /\ hev = NoHistEvent

\* BaseShell.__init__ gives every instance _done = False, _parent = None
\* and _input_stream = None; the host has constructed the first shell and
\* no run is active
\* Python values of the completion code: None, a value, something that is
\* not a list, and a raised exception in the place of a value
PyNone == [kind |-> "none", value |-> <<>>]
Value(v) == [kind |-> "value", value |-> v]
NotAList == [kind |-> "other", value |-> <<>>]
Raised == [kind |-> "raises", value |-> <<>>]
RaisedBase == [kind |-> "raises_base", value |-> <<>>]

NoCompleteEvent == [op |-> "none", line |-> <<>>, begidx |-> 0, token |-> <<>>,
                    index |-> 0, result |-> PyNone, matches |-> PyNone]

InitCompleteIdle ==
    /\ do_functions = {}
    /\ latest_matches = PyNone
    /\ cev = NoCompleteEvent

InitShellIdle ==
    /\ constructed = 1
    /\ done = [s \in Shells |-> FALSE]
    /\ parent = [s \in Shells |-> NoParent]
    /\ input_stream = [s \in Shells |-> "None"]
    /\ stack = <<>>
    /\ remaining = 0
    /\ escaped = "none"
    /\ ev = NoEvent

(***************************************************************************)
(* BaseShell._find_command                                                 *)
(***************************************************************************)
IsMethod(al, n) == n \in DOMAIN al /\ ~al[n].static
IsFunction(al, n) == n \in DOMAIN al /\ al[n].static

\* all_methods restricted to the alias_ members: bound methods first
\* (getmembers(self, ismethod)), then static functions
\* (getmembers(self, isfunction)), each group sorted by name
AllAliasMethods(al) ==
    LET m(n) == IsMethod(al, n)
        f(n) == IsFunction(al, n)
    IN  SelectSeq(SortedNames, m) \o SelectSeq(SortedNames, f)

\* the loop "for cur_method in all_methods" over the alias providers,
\* from position i on: each provider is called until one reports the name
RECURSIVE AliasLoopLast(_, _, _, _)
AliasLoopLast(al, order, i, command_name) ==
    IF i > Len(order) THEN [kind |-> "nomatch"]
    ELSE IF al[order[i]].reports = RAISES THEN [kind |-> "raised"]
    ELSE LET rest == AliasLoopLast(al, order, i + 1, command_name)
         IN  IF al[order[i]].reports = command_name /\ rest.kind = "nomatch"
             THEN [kind |-> "match", orig_cmd_name |-> order[i]]
             ELSE rest

RECURSIVE AliasLoop(_, _, _, _)
AliasLoop(al, order, i, command_name) ==
    IF i > Len(order) THEN [kind |-> "nomatch"]
    ELSE IF al[order[i]].reports = RAISES THEN [kind |-> "raised"]
    ELSE IF al[order[i]].reports = command_name
         THEN [kind |-> "match", orig_cmd_name |-> order[i]]
    ELSE AliasLoop(al, order, i + 1, command_name)

\* _find_command(command_name), entered at recursion depth `depth`.
\* The result names the handler found, None, or the exception that left
\* the call; `depth` in the result is the deepest nested call made.
RECURSIVE find_command(_, _, _, _)
find_command(do, al, command_name, depth) ==
    IF depth > MaxRecursion
    THEN [kind |-> "RecursionError", name |-> "", depth |-> depth]
    ELSE IF command_name \in do
    THEN [kind |-> "handler", name |-> command_name, depth |-> depth]
    ELSE LET a == AliasLoop(al, AllAliasMethods(al), 1, command_name)
         IN  CASE a.kind = "nomatch" ->
                    [kind |-> "None", name |-> "", depth |-> depth]
               [] a.kind = "raised" ->
                    [kind |-> "AliasError", name |-> "", depth |-> depth]
               [] a.kind = "match" ->
                    find_command(do, al, a.orig_cmd_name, depth + 1)

\* the value returned or raised, without the depth
Outcome(r) == [kind |-> r.kind, name |-> r.name]

(***************************************************************************)
(* BaseShell._check_params and BaseShell._execute_command                  *)
(*                                                                         *)
(* Of the signature of a handler run looks at two numbers:                 *)
(* num_required_params (_count_required_params) and total_num_params       *)
(* (_count_params).                                                        *)
(***************************************************************************)
Count(flag) == IF flag THEN 1 ELSE 0

\* _count_required_params: the parameters of inspect.signature whose
\* default is Parameter.empty, of whatever kind: *args and **kwargs have
\* no default
count_required_params(sig) ==
    sig.required + Count(sig.varargs) + sig.kwonly_required + Count(sig.varkw)

\* _count_params: len(func_sig.parameters)
count_params(sig) ==
    sig.required + sig.optional + Count(sig.varargs)
        + sig.kwonly_required + sig.kwonly_optional + Count(sig.varkw)

Max(a, b) == IF a >= b THEN a ELSE b

\* " ".join(tokens)
RECURSIVE Join(_)
Join(tokens) ==
    IF Len(tokens) = 0 THEN ""
    ELSE IF Len(tokens) = 1 THEN tokens[1]
    ELSE tokens[1] \o " " \o Join(Tail(tokens))

\* the slices params[-n:] and params[:-n] of a Python list, for n >= 1
LastSlice(params, n) == SubSeq(params, Max(1, Len(params) - n + 1), Len(params))
FrontSlice(params, n) == SubSeq(params, 1, Max(0, Len(params) - n))

\* _check_params: the error it reports, or "ok" when it returns True
check_params_nozero(num_required_params, total_num_params, params) ==
    IF Len(params) < num_required_params THEN "too_few" ELSE "ok"

check_params(num_required_params, total_num_params, params) ==
    LET num_tokens == Len(params)
    IN  IF total_num_params = 0 /\ num_tokens # 0 THEN "too_many"
        ELSE IF num_tokens < num_required_params THEN "too_few"
        ELSE "ok"

\* _execute_command: the positional arguments func is called with
params_to_pass(num_params_total, params) ==
    IF Len(params) = 0 THEN <<>>
    ELSE IF Len(params) > num_params_total
    THEN LET num_params_to_compress == Len(params) - num_params_total + 1
             compressed == Join(LastSlice(params, num_params_to_compress))
         IN  Append(FrontSlice(params, num_params_to_compress), compressed)
    ELSE params

\* func(*params_to_pass): Python binds the positional arguments to the
\* positional parameters, the surplus to *args when there is one, and
\* raises TypeError when a positional parameter without default gets no
\* argument, when arguments are left over, or when a keyword-only
\* parameter has no default
CallBinds(sig, args) ==
    /\ sig.required <= Len(args)
    /\ sig.varargs \/ Len(args) <= sig.required + sig.optional
    /\ sig.kwonly_required = 0

(***************************************************************************)
(* SpecBind: run's steps "_check_params, then _execute_command" for every  *)
(* signature up to MaxParams positional and MaxKeywordOnly keyword-only    *)
(* parameters and every token list up to MaxTokens.                        *)
(***************************************************************************)
Signatures ==
    {Sig(r, o, va, kr, ko, vk) :
        r \in 0..MaxParams, o \in 0..MaxParams, va \in BOOLEAN,
        kr \in 0..MaxKeywordOnly, ko \in 0..MaxKeywordOnly, vk \in BOOLEAN}

Tokens == {"a", "b"}

TokenLists == UNION {[1..n -> Tokens] : n \in 0..MaxTokens}

\* a handler and the tokens of a line that names it, not yet dispatched
InitBind ==
    /\ do_methods = {}
    /\ alias_methods = <<>>
    /\ InitFindIdle
    /\ \E sig \in Signatures, params \in TokenLists :
            /\ sig.required + sig.optional <= MaxParams
            /\ bound = [NotBound EXCEPT !.sig = sig, !.params = params]
    /\ InitShellIdle
    /\ InitHistIdle
    /\ InitCompleteIdle

\* a line with the parameter tokens `params` resolved to a handler with
\* the signature `sig`
Bind(sig, params) ==
    LET R == count_required_params(sig)
        T == count_params(sig)
        check == check_params(R, T, params)
        args == params_to_pass(T, params)
    IN  /\ bound' = [sig |-> sig, R |-> R, T |-> T, params |-> params,
                     check |-> check,
                     called |-> check = "ok" /\ CallBinds(sig, args),
                     args |-> IF check = "ok" THEN args ELSE <<>>]
        /\ UNCHANGED <<do_methods, alias_methods, found, shellVars, histVars,
                     completeVars>>

NextBind ==
    /\ bound.check = "idle"
    /\ Bind(bound.sig, bound.params)

SpecBind == InitBind /\ [][NextBind]_vars

(***************************************************************************)
(* SpecFind: every method table over FindNames, every lookup.              *)
(***************************************************************************)
FindNames == {"echo", "p", "q"}

AliasInfo == [reports : FindNames \cup {RAISES}, static : BOOLEAN]

AliasTables == UNION {[D -> AliasInfo] : D \in SUBSET FindNames}

InitFind ==
    /\ do_methods \in SUBSET FindNames
    /\ alias_methods \in AliasTables
    /\ InitFindIdle
    /\ InitBindIdle
    /\ InitShellIdle
    /\ InitHistIdle
    /\ InitCompleteIdle

Resolve(command_name) ==
    /\ found' = [command_name |-> command_name,
                 result |-> find_command(do_methods, alias_methods, command_name, 0)]
    /\ UNCHANGED <<do_methods, alias_methods, bound, shellVars, histVars,
                 completeVars>>

NextFind == \E n \in FindNames : Resolve(n)

SpecFind == InitFind /\ [][NextFind]_vars

(***************************************************************************)
(* BaseShell.do_exit, BaseShell.do_close and the except clauses of         *)
(* BaseShell._get_input, as functions from the _done flags to the _done    *)
(* flags.                                                                  *)
(***************************************************************************)
\* do_exit on `self`, entered at recursion depth `depth`: sets _done and
\* calls do_exit on the parent, if there is one
RECURSIVE do_exit(_, _, _, _)
do_exit(d, p, self, depth) ==
    IF depth > MaxRecursion THEN d
    ELSE LET d1 == [d EXCEPT ![self] = TRUE]
         IN  IF p[self] # NoParent THEN do_exit(d1, p, p[self], depth + 1)
             ELSE d1

\* do_exit never returns when the _parent references form a cycle: the
\* nested calls end in RecursionError
RECURSIVE do_exit_overflows(_, _, _)
do_exit_overflows(p, self, depth) ==
    IF depth > MaxRecursion THEN TRUE
    ELSE IF p[self] # NoParent THEN do_exit_overflows(p, p[self], depth + 1)
    ELSE FALSE

\* do_exit left by an exception raised in it after n shells of the chain
\* have had their flag set
RECURSIVE do_exit_partial(_, _, _, _)
do_exit_partial(d, p, self, n) ==
    IF n = 0 THEN d
    ELSE LET d1 == [d EXCEPT ![self] = TRUE]
         IN  IF p[self] # NoParent THEN do_exit_partial(d1, p, p[self], n - 1)
             ELSE d1

do_close_parent(d, p, self) ==
    [x \in Shells |-> d[x] \/ x = self \/ x = p[self]]

do_close(d, p, self) == [d EXCEPT ![self] = TRUE]

\* except KeyboardInterrupt in _get_input
on_interrupt_exit(d, p, self) == do_exit(d, p, self, 0)

on_interrupt(d, p, self) == [d EXCEPT ![self] = TRUE]

\* except EOFError in _get_input
on_eof(d, p, self) == do_exit(d, p, self, 0)

\* except Exception in _get_input
on_input_error(d, p, self) == [d EXCEPT ![self] = TRUE]

(***************************************************************************)
(* The shell class run by Spec: the commands of BaseShell (exit, close,    *)
(* native_shell with its alias "!") and three commands of the host:        *)
(*   sub   calls self.run_subshell(child)                                  *)
(*   fail  raises an exception                                             *)
(*   echo  returns                                                         *)
(***************************************************************************)
ShellCommands == {"close", "echo", "exit", "fail", "native_shell", "sub"}

\* name |-> the signature of do_<name>
Signature ==
    [n \in ShellCommands |->
        CASE n = "close" -> Positional(0, 0)
          [] n = "exit" -> Positional(0, 0)
          [] n = "sub" -> Positional(0, 0)
          [] n = "native_shell" -> Positional(1, 0)
          [] n = "fail" -> Positional(0, 1)
          [] n = "echo" -> Positional(1, 1)]

\* BaseShell.alias_native_shell
BaseAliases == [n \in {"native_shell"} |-> [reports |-> "!", static |-> TRUE]]

\* the alias providers the host class adds
HostAliases ==
    { <<>>,
      [n \in {"sub"} |-> [reports |-> RAISES, static |-> TRUE]],
      [n \in {"p", "q"} |-> [reports |-> IF n = "p" THEN "q" ELSE "p",
                             static |-> FALSE]] }

ShellAliasTables == {BaseAliases @@ h : h \in HostAliases}

(***************************************************************************)
(* Input lines.  A line is what _get_input returned:                       *)
(*   empty    ""  (input() returned no text)                               *)
(*   blank    white space only, such as the "\n" that readline() returns   *)
(*            for an empty line of a stream                                *)
(*   comment  a line starting with comment_delimiter                       *)
(*   garbled  text that is no command line, such as an unclosed quote      *)
(*   cmd      a command token followed by parameter tokens                 *)
(***************************************************************************)
CommandTokens == {"close", "echo", "exit", "fail", "sub", "!", "q"}

LineParams == UNION {[1..n -> {"a"}] : n \in 0..MaxLineTokens}

Lines ==
    [kind : {"empty", "blank", "comment", "garbled"}, command : {""},
     params : {<<>>}]
    \cup [kind : {"cmd"}, command : CommandTokens, params : LineParams]

\* The tokenizer, self._parser.parseString(line, parseAll=True): it raises
\* ParseException when the grammar <command> [token ...] does not match
\* the entire line, as for a line without a command token
ParseException(line) == line.kind \in {"garbled", "blank"}

\* BaseShell._parse_line: None when the tokenizer raised
parse_line(line) == IF ParseException(line) THEN "None" ELSE "ParseResults"

\* The body of the while loop of run from "if not line" to the call of
\* _execute_command: what becomes of a line.
Dispatch(do, al, line) ==
    LET skip(op) == [op |-> op, handler |-> "", args |-> <<>>]
    IN  IF line.kind = "empty" THEN skip("skip_empty")
        ELSE IF line.kind = "comment" THEN skip("skip_comment")
        ELSE IF parse_line(line) = "None" THEN skip("parse_error")
        ELSE LET func == find_command(do, al, line.command, 0)
             IN  IF func.kind \in {"RecursionError", "AliasError"}
                 THEN skip(func.kind)
                 ELSE IF func.kind = "None" THEN skip("not_found")
                 ELSE LET sig == Signature[func.name]
                          R == count_required_params(sig)
                          T == count_params(sig)
                          args == params_to_pass(T, line.params)
                      IN  IF check_params(R, T, line.params) # "ok"
                          THEN [op |-> "arity_error", handler |-> func.name,
                                args |-> <<>>]
                          ELSE [op |-> IF CallBinds(sig, args)
                                       THEN "call" ELSE "call_error",
                                handler |-> func.name, args |-> args]

\* Dispatch for the class run by Spec, tabulated once for every line
DispatchTable ==
    [al \in ShellAliasTables |->
        [line \in Lines |-> Dispatch(ShellCommands, al, line)]]

\* whether self.error is called in a step `op` taken with `depth` runs
\* active
ErrorReported(op, depth) ==
    op \in ErrorOps \/ (op \in EscapeErrorOps /\ depth > 1)

Event(op, self, line, d) ==
    [op |-> op, shell |-> self, line |-> line.kind, handler |-> d.handler,
     error |-> ErrorReported(op, Len(stack)), params |-> line.params,
     args |-> d.args]

PlainEvent(op, self) ==
    [NoEvent EXCEPT !.op = op, !.shell = self,
                    !.error = ErrorReported(op, Len(stack))]

(***************************************************************************)
(* Spec: the host runs a shell; handlers run sub-shells.                   *)
(***************************************************************************)
Init ==
    /\ do_methods = ShellCommands
    /\ alias_methods \in ShellAliasTables
    /\ InitFindIdle
    /\ InitBindIdle
    /\ InitShellIdle
    /\ InitHistIdle
    /\ InitCompleteIdle

classVars == <<do_methods, alias_methods, found, bound, histVars, completeVars>>

otherVars == <<constructed, escaped, classVars>>

Top == stack[Len(stack)]

\* "while not self._done": the flag is tested before each line is read
RunningDoWhile == stack # <<>> /\ (ev.op \in {"run", "subshell"} \/ ~done[Top])

Running == stack # <<>> /\ ~done[Top]

\* run assigns _input_stream and _parent and nothing else: _done keeps the
\* value it has
run_flag_reset(d, self) == [d EXCEPT ![self] = FALSE]

run_flag(d, self) == d

\* run(input_stream=..., parent=...): the assignments before the loop
run(self, stream, par) ==
    /\ input_stream' = [input_stream EXCEPT ![self] = stream]
    /\ parent' = [parent EXCEPT ![self] = par]
    /\ done' = run_flag(done, self)
    /\ stack' = Append(stack, self)

\* run(input_stream=...) left by KeyboardInterrupt between the assignment
\* of _input_stream (205-206) and that of _parent (207)
run_interrupted(self, stream) ==
    /\ input_stream' = [input_stream EXCEPT ![self] = stream]
    /\ UNCHANGED <<parent, done, stack>>

\* run_subshell(subshell): subshell.run(input_stream=self._input_stream,
\* parent=self)
run_subshell_own_input(self, subshell) ==
    run(subshell, input_stream[subshell], self)

run_subshell(self, subshell) == run(subshell, input_stream[self], self)

\* the host calls run on a shell, interactively or on a finite stream
HostRun(self, stream, lines) ==
    /\ ev = NoEvent
    /\ run(self, stream, NoParent)
    /\ remaining' = IF stream = "stream" THEN lines ELSE 0
    /\ ev' = PlainEvent("run", self)
    /\ UNCHANGED otherVars

\* "while not self._done" finds the flag set: run returns to its caller,
\* the host or the handler that called run_subshell
RunReturn ==
    /\ stack # <<>>
    /\ done[Top]
    /\ stack' = SubSeq(stack, 1, Len(stack) - 1)
    /\ ev' = PlainEvent("return", Top)
    /\ UNCHANGED <<done, parent, input_stream, remaining, otherVars>>

\* an exception deriving from Exception, or KeyboardInterrupt, leaves
\* run: a handler that called run_subshell sees it raised by its call, and
\* _execute_command of the parent catches it; with no parent run below,
\* it reaches the host
Escape(kind) ==
    /\ stack' = SubSeq(stack, 1, Len(stack) - 1)
    /\ escaped' = IF Len(stack) = 1 THEN kind ELSE escaped

\* an exception of _get_input arrives before readline() has taken a line
\* of the stream, or after it (in self.info(self.prompt + line) or at
\* "return line"): the line is then lost
Taken(lost) ==
    IF lost
    THEN /\ input_stream[Top] = "stream"
         /\ remaining > 0
         /\ remaining' = remaining - 1
    ELSE UNCHANGED remaining

\* _get_input: KeyboardInterrupt in the try block
InputInterrupted(lost) ==
    /\ Running
    /\ Taken(lost)
    /\ done' = on_interrupt(done, parent, Top)
    /\ ev' = PlainEvent("interrupt", Top)
    /\ UNCHANGED <<parent, input_stream, stack, otherVars>>

\* KeyboardInterrupt in run outside _get_input and _execute_command,
\* before or after a line has been read: nothing in run catches it
RunInterrupted(lost) ==
    /\ stack # <<>>
    /\ lost => Running
    /\ Taken(lost)
    /\ Escape("KeyboardInterrupt")
    /\ ev' = PlainEvent("run_interrupt", Top)
    /\ UNCHANGED <<done, parent, input_stream, constructed, classVars>>

\* _get_input: readline() returned "" at the end of the stream, or input()
\* raised EOFError: do_exit is called
InputExhausted ==
    /\ Running
    /\ input_stream[Top] = "stream" => remaining = 0
    /\ done' = on_eof(done, parent, Top)
    /\ IF do_exit_overflows(parent, Top, 0)
       THEN /\ Escape("RecursionError")
            /\ ev' = PlainEvent("eof_error", Top)
       ELSE /\ ev' = PlainEvent("eof", Top)
            /\ UNCHANGED <<stack, escaped>>
    /\ UNCHANGED <<parent, input_stream, remaining, constructed, classVars>>

\* _get_input: KeyboardInterrupt inside the do_exit called by the except
\* EOFError clause, after n flags have been set: no clause of _get_input
\* catches it
ExhaustedInterrupted(n) ==
    /\ Running
    /\ input_stream[Top] = "stream" => remaining = 0
    /\ done' = do_exit_partial(done, parent, Top, n)
    /\ Escape("KeyboardInterrupt")
    /\ ev' = PlainEvent("eof_interrupt", Top)
    /\ UNCHANGED <<parent, input_stream, remaining, constructed, classVars>>

\* _get_input: any other exception deriving from Exception in the try
\* block, raised by readline() or input(), or by self.info afterwards
InputFailed(lost) ==
    /\ Running
    /\ Taken(lost)
    /\ done' = on_input_error(done, parent, Top)
    /\ ev' = PlainEvent("input_error", Top)
    /\ UNCHANGED <<parent, input_stream, stack, otherVars>>

\* _get_input: KeyboardInterrupt inside the except Exception clause, while
\* self.error or self.debug reports the failure and before the flag is
\* set: no clause of _get_input catches it, and the flag stays as it was
InputFailedInterrupted(lost) ==
    /\ Running
    /\ Taken(lost)
    /\ Escape("KeyboardInterrupt")
    /\ ev' = PlainEvent("input_error_interrupt", Top)
    /\ UNCHANGED <<done, parent, input_stream, constructed, classVars>>

\* _get_input returns `line`
Read(line) ==
    /\ Running
    /\ IF input_stream[Top] = "stream"
       THEN /\ remaining > 0
            /\ line.kind # "empty"
            /\ remaining' = remaining - 1
       ELSE UNCHANGED remaining

\* the `continue` statements of the loop of run
on_continue_done(d, p, self) == [d EXCEPT ![self] = TRUE]

on_continue(d, p, self) == d

\* the line is dropped or reported, and the loop continues
Continue(line, d) ==
    /\ d.op \in {"skip_empty", "skip_comment", "parse_error", "not_found",
                 "arity_error"}
    /\ done' = on_continue(done, parent, Top)
    /\ ev' = Event(d.op, Top, line, d)
    /\ UNCHANGED <<parent, input_stream, stack, otherVars>>

\* _find_command raises (an alias provider raised, or the alias chain
\* never ended): nothing in run catches it
FindRaises(line, d) ==
    /\ d.op \in {"RecursionError", "AliasError"}
    /\ Escape(d.op)
    /\ ev' = Event(d.op, Top, line, d)
    /\ UNCHANGED <<done, parent, input_stream, constructed, classVars>>

\* _execute_command calls the handler `name`
Calls(d, name) == d.op = "call" /\ d.handler = name

CallExit(line, d) ==
    /\ Calls(d, "exit")
    /\ done' = do_exit(done, parent, Top, 0)
    /\ ev' = Event(IF do_exit_overflows(parent, Top, 0)
                   THEN "handler_error" ELSE "invoke", Top, line, d)
    /\ UNCHANGED <<parent, input_stream, stack, otherVars>>

CallClose(line, d) ==
    /\ Calls(d, "close")
    /\ done' = do_close(done, parent, Top)
    /\ ev' = Event("invoke", Top, line, d)
    /\ UNCHANGED <<parent, input_stream, stack, otherVars>>

\* the handler of sub constructs a shell and calls
\* self.run_subshell(subshell) on it
CallNewSubshell(line, d) ==
    /\ Calls(d, "sub")
    /\ Len(stack) < MaxDepth
    /\ constructed < NumShells
    /\ constructed' = constructed + 1
    /\ run_subshell(Top, constructed + 1)
    /\ ev' = Event("subshell", Top, line, d)
    /\ UNCHANGED <<escaped, classVars>>

\* the handler of sub calls self.run_subshell(subshell) on a shell
\* constructed earlier, whether it ran before or not and whether its run
\* is active or not
CallSubshell(line, d) ==
    \E subshell \in 1..constructed :
        /\ Calls(d, "sub")
        /\ Len(stack) < MaxDepth
        /\ run_subshell(Top, subshell)
        /\ ev' = Event("subshell", Top, line, d)
        /\ UNCHANGED otherVars

\* the user interrupts the handler of sub inside the run it called, after
\* the sub-shell, constructed for the call or earlier, was given the
\* input source and before it was given its parent: except
\* KeyboardInterrupt in _execute_command of the calling shell
CallSubshellInterrupted(line, d) ==
    \E subshell \in 1..NumShells :
        /\ Calls(d, "sub")
        /\ subshell <= constructed + 1
        /\ constructed' = Max(constructed, subshell)
        /\ run_interrupted(subshell, input_stream[Top])
        /\ ev' = Event("handler_interrupt", Top, line, d)
        /\ UNCHANGED <<escaped, classVars>>

\* the handler returns without touching the shell
CallReturns(line, d) ==
    /\ Calls(d, "echo") \/ Calls(d, "native_shell")
    /\ ev' = Event("invoke", Top, line, d)
    /\ UNCHANGED <<done, parent, input_stream, stack, otherVars>>

\* except Exception in _execute_command: the failure is reported and
\* nothing else is done
on_handler_error_done(d, p, self) == [d EXCEPT ![self] = TRUE]

on_handler_error(d, p, self) == d

\* the handler raises an exception deriving from Exception (fail does;
\* do_native_shell when self.info raises on the output of the command),
\* or the call func(*params_to_pass) does not bind: except Exception in
\* _execute_command
CallFails(line, d) ==
    /\ Calls(d, "fail") \/ Calls(d, "native_shell") \/ d.op = "call_error"
    /\ done' = on_handler_error(done, parent, Top)
    /\ ev' = Event("handler_error", Top, line, d)
    /\ UNCHANGED <<parent, input_stream, stack, otherVars>>

\* the assignments to _done a handler makes, after each of which an
\* interrupt may arrive
InterruptPoints(handler) ==
    IF handler = "exit" THEN NumShells
    ELSE IF handler = "close" THEN 1
    ELSE 0

\* the flags when KeyboardInterrupt arrives in the handler: do_exit has
\* set n flags of the chain, do_close has set its flag or not, and the
\* other handlers set none
on_handler_interrupt(d, p, self, handler, n) ==
    IF handler = "exit" THEN do_exit_partial(d, p, self, n)
    ELSE IF handler = "close" /\ n > 0 THEN do_close(d, p, self)
    ELSE d

\* the user interrupts the handler, whichever it is: except
\* KeyboardInterrupt in _execute_command
CallInterrupted(line, d, n) ==
    /\ d.op = "call"
    /\ n <= InterruptPoints(d.handler)
    /\ done' = on_handler_interrupt(done, parent, Top, d.handler, n)
    /\ ev' = Event("handler_interrupt", Top, line, d)
    /\ UNCHANGED <<parent, input_stream, stack, otherVars>>

\* the handler raises an exception that derives neither from Exception
\* nor from KeyboardInterrupt, such as SystemExit: no clause of
\* _execute_command catches it, in this shell or in a parent, and it
\* leaves every active run
CallLeaves(line, d) ==
    /\ Calls(d, "fail")
    /\ stack' = <<>>
    /\ escaped' = "SystemExit"
    /\ ev' = Event("SystemExit", Top, line, d)
    /\ UNCHANGED <<done, parent, input_stream, constructed, classVars>>

\* what becomes of `line` in the shell class run by Spec
D(line) == DispatchTable[alias_methods][line]

\* the host calls run on the first shell (all shells are alike)
Next ==
    \/ \E stream \in {"None", "stream"} : HostRun(1, stream, MaxLines)
    \/ RunReturn
    \/ \E lost \in BOOLEAN : InputInterrupted(lost)
    \/ \E lost \in BOOLEAN : RunInterrupted(lost)
    \/ InputExhausted
    \/ \E n \in 0..NumShells : ExhaustedInterrupted(n)
    \/ \E lost \in BOOLEAN : InputFailed(lost)
    \/ \E lost \in BOOLEAN : InputFailedInterrupted(lost)
    \/ \E line \in Lines : Read(line) /\ Continue(line, D(line))
    \/ \E line \in Lines : Read(line) /\ FindRaises(line, D(line))
    \/ \E line \in Lines : Read(line) /\ CallExit(line, D(line))
    \/ \E line \in Lines : Read(line) /\ CallClose(line, D(line))
    \/ \E line \in Lines : Read(line) /\ CallNewSubshell(line, D(line))
    \/ \E line \in Lines : Read(line) /\ CallSubshell(line, D(line))
    \/ \E line \in Lines : Read(line) /\ CallReturns(line, D(line))
    \/ \E line \in Lines : Read(line) /\ CallFails(line, D(line))
    \/ \E line \in Lines, n \in 0..NumShells :
            Read(line) /\ CallInterrupted(line, D(line), n)
    \/ \E line \in Lines :
            Read(line) /\ CallSubshellInterrupted(line, D(line))
    \/ \E line \in Lines : Read(line) /\ CallLeaves(line, D(line))

Spec == Init /\ [][Next]_vars

(***************************************************************************)
(* The readline module, as auto_complete_manager uses it.                  *)
(*                                                                         *)
(* A history file holds one line per entry.  Entries are the non-empty     *)
(* lines the user typed (readline keeps no empty line in its buffer).      *)
(***************************************************************************)
\* readline.set_history_length(1000): write_history_file keeps the last
\* HistoryLength lines of the file
HistoryLength == 1000

LastEntries(buf, n) == SubSeq(buf, Max(1, Len(buf) - n + 1), Len(buf))

\* readline.write_history_file: the lines the file holds afterwards
write_history_file(buf) == LastEntries(buf, HistoryLength)

\* readline.read_history_file: the buffer after the lines of the file have
\* been appended to it; an empty line of the file is no entry
read_history_file(buf, lines) ==
    LET entry(l) == l # ""
    IN  buf \o SelectSeq(lines, entry)

\* readline.clear_history
clear_history == <<>>

\* auto_complete_manager after the nested helper has returned:
\* readline.clear_history(); readline.read_history_file(temp_file.name)
restore_without_clear(buf, temp_file) == read_history_file(buf, temp_file)

restore_parent_history(buf, temp_file) ==
    read_history_file(clear_history, temp_file)

(***************************************************************************)
(* SpecHist: scopes of auto_complete_manager opened and closed in LIFO     *)
(* order, lines added to the history by readline, do_clear_history.        *)
(***************************************************************************)
InitHist ==
    /\ do_methods = {}
    /\ alias_methods = <<>>
    /\ InitFindIdle
    /\ InitBindIdle
    /\ InitShellIdle
    /\ InitCompleteIdle
    /\ AUTOCOMPLETE_ENABLED \in BOOLEAN
    /\ history = <<>>
    /\ completer = "None"
    /\ files \in [HistoryFiles -> InitialFiles]
    /\ scopes = <<>>
    /\ hev = NoHistEvent

notHistVars == <<do_methods, alias_methods, found, bound, shellVars,
                 completeVars>>

Scope(path, callback, history_file, temp_file, preload) ==
    [path |-> path, callback |-> callback, history_file |-> history_file,
     old_completer |-> completer, temp_file |-> temp_file,
     entry_history |-> history, preload |-> preload, added |-> <<>>,
     plain |-> TRUE]

HistEvent(op, scope) == [op |-> op, scope |-> scope]

\* the scope on top has seen something other than lines being added and
\* nested scopes that ended normally; its added lines are followed no more
Disturbed(ss) ==
    IF ss = <<>> THEN ss
    ELSE [ss EXCEPT ![Len(ss)].plain = FALSE, ![Len(ss)].added = <<>>]

\* the path auto_complete_manager takes: the passthrough when readline is
\* not available, else the helper alone when
\* readline.get_current_history_length() is 0, else the nested path
scope_path_no_passthrough(enabled, buf) ==
    IF Len(buf) = 0 THEN "baseline" ELSE "nested"

scope_path_always_nested(enabled, buf) ==
    IF ~enabled THEN "disabled" ELSE "nested"

scope_path(enabled, buf) ==
    IF ~enabled THEN "disabled"
    ELSE IF Len(buf) = 0 THEN "baseline" ELSE "nested"

\* if not AUTOCOMPLETE_ENABLED: yield
EnterDisabled(callback, history_file) ==
    /\ scope_path(AUTOCOMPLETE_ENABLED, history) = "disabled"
    /\ Len(scopes) < MaxScopes
    /\ scopes' = Append(scopes,
                        Scope("disabled", callback, history_file, <<>>, <<>>))
    /\ hev' = HistEvent("enter", NoScope)
    /\ UNCHANGED <<AUTOCOMPLETE_ENABLED, history, completer, files, notHistVars>>

\* _autocomplete_helper up to its yield, on the buffer `buf`:
\* os.path.exists(history_file) raises TypeError for history_file = None
HelperFails(history_file) == history_file = NoFile

HelperPreload(history_file) ==
    IF history_file # NoFile /\ files[history_file].exists
    THEN read_history_file(clear_history, files[history_file].lines)
    ELSE clear_history

\* no history loaded: with _autocomplete_helper(...): yield
EnterBaseline(callback, history_file) ==
    /\ scope_path(AUTOCOMPLETE_ENABLED, history) = "baseline"
    /\ Len(scopes) < MaxScopes
    /\ ~HelperFails(history_file)
    /\ Len(HelperPreload(history_file)) <= MaxHistory
    /\ history' = IF files[history_file].exists
                  THEN read_history_file(history, files[history_file].lines)
                  ELSE history
    /\ completer' = callback
    /\ scopes' = Append(Disturbed(scopes),
                        Scope("baseline", callback, history_file, <<>>,
                              HelperPreload(history_file)))
    /\ hev' = HistEvent("enter", NoScope)
    /\ UNCHANGED <<AUTOCOMPLETE_ENABLED, files, notHistVars>>

\* history loaded: the buffer is written to a temporary file and cleared,
\* then the helper runs
EnterNested(callback, history_file) ==
    /\ scope_path(AUTOCOMPLETE_ENABLED, history) = "nested"
    /\ Len(scopes) < MaxScopes
    /\ ~HelperFails(history_file)
    /\ Len(HelperPreload(history_file)) <= MaxHistory
    /\ history' = IF files[history_file].exists
                  THEN read_history_file(clear_history,
                                         files[history_file].lines)
                  ELSE clear_history
    /\ completer' = callback
    /\ scopes' = Append(scopes,
                        Scope("nested", callback, history_file,
                              write_history_file(history),
                              HelperPreload(history_file)))
    /\ hev' = HistEvent("enter", NoScope)
    /\ UNCHANGED <<AUTOCOMPLETE_ENABLED, files, notHistVars>>

\* the helper raises before its yield (history_file is None): the with
\* statement never runs its body; on the nested path the buffer has been
\* cleared already and the temporary file is deleted
EnterFails(callback, history_file) ==
    /\ scope_path(AUTOCOMPLETE_ENABLED, history) # "disabled"
    /\ HelperFails(history_file)
    /\ history' = IF scope_path(AUTOCOMPLETE_ENABLED, history) = "nested"
                  THEN clear_history ELSE history
    /\ scopes' = IF scope_path(AUTOCOMPLETE_ENABLED, history) = "nested"
                 THEN Disturbed(scopes) ELSE scopes
    /\ hev' = HistEvent("enter_failed", NoScope)
    /\ UNCHANGED <<AUTOCOMPLETE_ENABLED, completer, files, notHistVars>>

\* the buffer after input() returned a line: readline appends a line that
\* is not empty and that differs from the last entry of the buffer
add_history(buf, entry) ==
    IF buf # <<>> /\ buf[Len(buf)] = entry THEN buf ELSE Append(buf, entry)

\* the user enters a line through input()
AddHistory(entry) ==
    /\ AUTOCOMPLETE_ENABLED
    /\ Len(history) < MaxHistory
    /\ history' = add_history(history, entry)
    /\ scopes' = IF /\ scopes # <<>>
                    /\ scopes[Len(scopes)].plain
                    /\ history' # history
                 THEN [scopes EXCEPT ![Len(scopes)].added = Append(@, entry)]
                 ELSE scopes
    /\ hev' = HistEvent("add", NoScope)
    /\ UNCHANGED <<AUTOCOMPLETE_ENABLED, completer, files, notHistVars>>

\* the buffer after do_clear_history: it returns early when readline is
\* not available
cleared_unless_enabled(enabled, buf) == IF enabled THEN buf ELSE clear_history

cleared_if_enabled(enabled, buf) == IF enabled THEN clear_history ELSE buf

\* CommandCompleteMixin.do_clear_history
do_clear_history ==
    /\ history' = cleared_if_enabled(AUTOCOMPLETE_ENABLED, history)
    /\ hev' = HistEvent(IF AUTOCOMPLETE_ENABLED THEN "clear"
                        ELSE "clear_disabled", NoScope)
    /\ scopes' = Disturbed(scopes)
    /\ UNCHANGED <<AUTOCOMPLETE_ENABLED, completer, files, notHistVars>>

TopScope == scopes[Len(scopes)]

\* the finally clause of _autocomplete_helper
\* readline.set_completer(old_completer) in the finally clause: it runs
\* whether the body returned or raised
set_completer_unless_raised(old_completer, current, raised) ==
    IF raised THEN current ELSE old_completer

set_completer_finally(old_completer, current, raised) == old_completer

\* the buffer the finally clause writes to the history file: the one of
\* the scope, the parent's being reloaded only after the helper has ended
history_after_restore(buf, temp_file) == restore_parent_history(buf, temp_file)

history_at_finally(buf, temp_file) == buf

HelperExit(raised) ==
    /\ completer' = set_completer_finally(TopScope.old_completer, completer,
                                          raised)
    /\ files' = IF TopScope.history_file # NoFile
                THEN [files EXCEPT ![TopScope.history_file] =
                    File(write_history_file(
                            history_at_finally(history, TopScope.temp_file)))]
                ELSE files

\* the body of the with statement ends: the generator is resumed after
\* its yield and runs to its end
ExitScope ==
    /\ scopes # <<>>
    /\ CASE TopScope.path = "disabled" ->
                UNCHANGED <<history, completer, files>>
         [] TopScope.path = "baseline" ->
                HelperExit(FALSE) /\ UNCHANGED history
         [] TopScope.path = "nested" ->
                /\ HelperExit(FALSE)
                /\ history' = restore_parent_history(history, TopScope.temp_file)
    /\ scopes' = IF TopScope.path = "nested"
                 THEN SubSeq(scopes, 1, Len(scopes) - 1)
                 ELSE Disturbed(SubSeq(scopes, 1, Len(scopes) - 1))
    /\ hev' = HistEvent("exit", TopScope)
    /\ UNCHANGED <<AUTOCOMPLETE_ENABLED, notHistVars>>

\* the body of the with statement raises: the exception is thrown into
\* the generator at its yield; the finally clause of the helper runs, the
\* statements after the inner with statement do not
AbortScope ==
    /\ scopes # <<>>
    /\ CASE TopScope.path = "disabled" ->
                UNCHANGED <<history, completer, files>>
         [] TopScope.path = "baseline" ->
                HelperExit(TRUE) /\ UNCHANGED history
         [] TopScope.path = "nested" ->
                HelperExit(TRUE) /\ UNCHANGED history
    /\ scopes' = Disturbed(SubSeq(scopes, 1, Len(scopes) - 1))
    /\ hev' = HistEvent("abort", TopScope)
    /\ UNCHANGED <<AUTOCOMPLETE_ENABLED, notHistVars>>

NextHist ==
    \/ \E callback \in Callbacks : \E history_file \in HistoryFiles \cup {NoFile} :
            \/ EnterDisabled(callback, history_file)
            \/ EnterBaseline(callback, history_file)
            \/ EnterNested(callback, history_file)
            \/ EnterFails(callback, history_file)
    \/ \E entry \in Entries : AddHistory(entry)
    \/ do_clear_history
    \/ ExitScope
    \/ AbortScope

SpecHist == InitHist /\ [][NextHist]_vars

(***************************************************************************)
(* CommandCompleteMixin._complete_callback, the function readline calls    *)
(* with the token under the cursor and the index of the match it wants.    *)
(* Strings are sequences of characters, so that str.startswith and the     *)
(* indexing of the line buffer are computed.                               *)
(***************************************************************************)
Chars == {"a", "b"}

\* the command names X of the do_X members a shell may have, in the order
\* inspect.getmembers lists them (ascending)
SortedCommandNames == << <<"a">>, <<"a", "b">>, <<"b">> >>

\* the names whose do_ member a host may have declared static
StaticCommandNames == {<<"a", "b">>}

CommandNames == {SortedCommandNames[i] : i \in 1..Len(SortedCommandNames)}

\* what readline.get_line_buffer() may return
LineBuffers == UNION {[1..n -> Chars] : n \in 0..MaxLineLen}

\* str.startswith
startswith(str, prefix) ==
    /\ Len(prefix) <= Len(str)
    /\ SubSeq(str, 1, Len(prefix)) = prefix

\* _complete_command_names: the names of the do_ members among
\* inspect.getmembers(self, inspect.ismethod), which lists bound methods
\* and no static function, that start with 'do_' + partial_cmd
complete_command_names(methods, partial_cmd) ==
    LET matches(n) == n \in methods /\ startswith(n, partial_cmd)
    IN  SelectSeq(SortedCommandNames, matches)

\* what a complete_X method of the host may return: a list of matches,
\* something else, an exception deriving from Exception, or one that does
\* not (KeyboardInterrupt, SystemExit, GeneratorExit)
CompletionLists == {<<>>, << <<"a">>, <<"b">> >>}

Retvals ==
    {Value(l) : l \in CompletionLists} \cup {NotAList, Raised, RaisedBase}

\* the course of _get_completion_matches for a token that does not start
\* the line: whether the line parses, whether the command has a complete_
\* method, whether the token is located among the parameters, and what
\* the complete_ method does
CompletionPath(parsed, callback, param_index, retval) ==
    [parsed |-> parsed, callback |-> callback, param_index |-> param_index,
     retval |-> retval]

CompletionPaths ==
    {CompletionPath(FALSE, FALSE, FALSE, PyNone),
     CompletionPath(TRUE, FALSE, FALSE, PyNone),
     CompletionPath(TRUE, TRUE, FALSE, PyNone)}
    \cup {CompletionPath(TRUE, TRUE, TRUE, retval) : retval \in Retvals}

\* _get_completions: a complete_ method must return a list
get_completions(retval) ==
    IF retval.kind \in {"raises", "raises_base"} THEN retval
    ELSE IF retval.kind # "value" THEN PyNone
    ELSE retval

\* _get_completion_matches
get_completion_matches(methods, begidx, token, path) ==
    IF begidx = 0 THEN Value(complete_command_names(methods, token))
    ELSE IF ~path.parsed THEN Raised        \* parser is None: parser.command
    ELSE IF ~path.callback THEN PyNone
    ELSE IF ~path.param_index THEN PyNone
    ELSE get_completions(path.retval)

\* _complete_callback: the value returned and the value of
\* self._latest_matches after the call.  Every exception deriving from
\* Exception that is raised in the try block ends in "return None": the
\* IndexError of readline.get_line_buffer()[0] on an empty line, the
\* TypeError of len(None), and what _get_completion_matches raises.  Any
\* other exception is raised out of _complete_callback.
complete_callback(stored, line, methods, begidx, token, index, path) ==
    IF Len(line) = 0
    THEN [result |-> PyNone, stored |-> stored]
    ELSE IF index # 0
    THEN [result |-> IF stored.kind # "value" THEN PyNone
                     ELSE IF index >= Len(stored.value) THEN PyNone
                     ELSE Value(stored.value[index + 1]),
          stored |-> stored]
    ELSE LET matches == get_completion_matches(methods, begidx, token, path)
         IN  IF matches.kind = "raises"
             THEN [result |-> PyNone, stored |-> stored]
             ELSE IF matches.kind = "raises_base"
             THEN [result |-> RaisedBase, stored |-> stored]
             ELSE [result |-> IF matches.kind = "none" \/ matches.value = <<>>
                              THEN PyNone
                              ELSE Value(matches.value[1]),
                   stored |-> matches]

InitComplete ==
    /\ do_methods \in SUBSET CommandNames
    /\ do_functions \in SUBSET (do_methods \cap StaticCommandNames)
    /\ alias_methods = <<>>
    /\ latest_matches = PyNone
    /\ cev = NoCompleteEvent
    /\ InitFindIdle
    /\ InitBindIdle
    /\ InitShellIdle
    /\ InitHistIdle

\* readline calls the completer with the text between begidx and the
\* cursor, here at the end of the line buffer.  The event keeps, for the claims, the match list
\* the latest call with index 0 had to compute.
Complete(line, begidx, index, path) ==
    LET token == SubSeq(line, begidx + 1, Len(line))
        methods == do_methods \ do_functions
        call == complete_callback(latest_matches, line, methods, begidx,
                                  token, index, path)
    IN  /\ latest_matches' = call.stored
        /\ cev' = [op |-> "complete", line |-> line, begidx |-> begidx,
                   token |-> token, index |-> index, result |-> call.result,
                   matches |-> IF index = 0
                               THEN get_completion_matches(methods, begidx,
                                                           token, path)
                               ELSE cev.matches]
        /\ UNCHANGED <<do_methods, alias_methods, found, bound, shellVars,
                       histVars, do_functions>>

NextComplete ==
    \E line \in LineBuffers, index \in 0..MaxIndex, path \in CompletionPaths :
        \E begidx \in 0..Len(line) :
            Complete(line, begidx, index, path)

SpecComplete == InitComplete /\ [][NextComplete]_vars

(***************************************************************************)
(* Claims about the history scopes (checked under SpecHist).               *)
(***************************************************************************)
NestedScopeEnded(ops) ==
    /\ hev.op \in ops
    /\ hev.scope.path = "nested"

\* C3: on every exit path of a nested scope, the normal one and the one
\* taken when the body raises, the history buffer is the one the parent
\* had when the scope was entered.
C3_NestedRestoreOnEveryExit ==
    NestedScopeEnded({"exit", "abort"}) => history = hev.scope.entry_history

\* C4: when a nested scope ends normally the history buffer is exactly the
\* buffer the parent had at entry, and the history file of the scope holds
\* the lines loaded from it at entry followed by the lines added in the
\* scope (the added lines alone when nothing was loaded).
C4_HistoryRoundTrip ==
    NestedScopeEnded({"exit"}) =>
        /\ history = hev.scope.entry_history
        /\ hev.scope.plain /\ hev.scope.history_file # NoFile =>
              /\ files[hev.scope.history_file].exists
              /\ files[hev.scope.history_file].lines =
                     hev.scope.preload \o hev.scope.added

\* a parent buffer [a, b], a nested scope that added [b, a] and has
\* ended normally
C4_Witness ==
    /\ NestedScopeEnded({"exit"})
    /\ hev.scope.plain
    /\ hev.scope.entry_history = <<"a", "b">>
    /\ hev.scope.added = <<"b", "a">>
    /\ hev.scope.history_file = "h1"
    /\ history = <<"a", "b">>

\* C17: when a scope has ended, normally or because its body raised, the
\* completer installed is the one that was installed when the scope was
\* entered; with every scope ended it is the one installed before the
\* first was entered.
C17_CompleterRestored ==
    /\ hev.op \in {"exit", "abort"} => completer = hev.scope.old_completer
    /\ scopes = <<>> => completer = "None"

\* a nested scope with callback cb2, entered with cb1 installed, has ended
\* by an exception and cb1 is installed again
C17_Witness ==
    /\ NestedScopeEnded({"abort"})
    /\ hev.scope.callback = "cb2"
    /\ hev.scope.old_completer = "cb1"
    /\ completer = "cb1"
    /\ Len(scopes) = 1

\* C18 (as claimed): entering a scope never fails; without a history file
\* the scope installs the callback and yields.
C18_ScopeWithoutFileEnters ==
    hev.op # "enter_failed"

\* C20: do_clear_history empties the history buffer when readline is
\* available and changes nothing else: not the completer, no history
\* file, not the copy of the parent's buffer that an open nested scope
\* holds; when readline is not available it changes nothing.  A nested
\* scope that ends normally leaves the buffer the parent had at entry,
\* whatever was cleared inside it.
C20_ClearHistoryOnlyLiveBuffer ==
    [][ /\ hev'.op = "clear" =>
            /\ AUTOCOMPLETE_ENABLED
            /\ history' = <<>>
            /\ completer' = completer /\ files' = files
            /\ Len(scopes') = Len(scopes)
            /\ \A i \in 1..Len(scopes) :
                    /\ scopes'[i].temp_file = scopes[i].temp_file
                    /\ scopes'[i].entry_history = scopes[i].entry_history
        /\ hev'.op = "clear_disabled" =>
            /\ ~AUTOCOMPLETE_ENABLED
            /\ history' = history
            /\ completer' = completer /\ files' = files
        /\ hev'.op = "exit" /\ hev'.scope.path = "nested" =>
            history' = hev'.scope.entry_history
      ]_vars

\* the history was cleared inside a nested scope that had loaded a line
\* from its history file, the parent's buffer being [a, b]
C20_Witness ==
    /\ hev.op = "clear"
    /\ scopes # <<>>
    /\ TopScope.path = "nested"
    /\ TopScope.preload # <<>>
    /\ TopScope.temp_file = <<"a", "b">>
    /\ history = <<>>

\* C21: when readline is not available no step changes the completer, the
\* history buffer or a history file; entering a scope starts its body, and
\* ending it, normally or not, ends that scope and no other.
C21_DisabledScopeIsPassthrough ==
    [][ ~AUTOCOMPLETE_ENABLED =>
            /\ completer' = completer
            /\ history' = history
            /\ files' = files
            /\ hev'.op = "enter" =>
                    /\ Len(scopes') = Len(scopes) + 1
                    /\ scopes'[Len(scopes')].path = "disabled"
            /\ hev'.op \in {"exit", "abort"} =>
                    /\ Len(scopes') = Len(scopes) - 1
                    /\ hev'.scope.path = "disabled"
            /\ hev'.op # "enter_failed"
      ]_vars

\* without readline, a scope given a history file that exists and a
\* callback has been entered and left, and nothing has changed
C21_Witness ==
    /\ ~AUTOCOMPLETE_ENABLED
    /\ hev.op = "exit"
    /\ hev.scope.path = "disabled"
    /\ hev.scope.history_file = "h1"
    /\ files["h1"] = File(<<"", "b">>)
    /\ completer = "None"
    /\ history = <<>>

\* C22: when a nested scope with a history file ends, normally or not, the
\* file holds the buffer of the scope as it was when the scope ended, not
\* yet replaced by the parent's; when only lines were added in the scope
\* this is the lines loaded from the file at entry followed by the lines
\* added, the parent's buffer having been cleared at entry.
C22_ChildFileFromChildBuffer ==
    [][ /\ hev'.op \in {"exit", "abort"}
        /\ hev'.scope.path = "nested"
        /\ hev'.scope.history_file # NoFile
        => /\ files'[hev'.scope.history_file] = File(history)
           /\ hev'.scope.plain =>
                  history = hev'.scope.preload \o hev'.scope.added
      ]_vars

\* a nested scope entered with the parent's buffer [a, b] loaded b from
\* its file, had a added and ended: the file holds [b, a]
C22_Witness ==
    /\ NestedScopeEnded({"exit", "abort"})
    /\ hev.scope.plain
    /\ hev.scope.entry_history = <<"a", "b">>
    /\ hev.scope.preload = <<"b">>
    /\ hev.scope.added = <<"a">>
    /\ files["h1"] = File(<<"b", "a">>)

\* C23: with readline available a scope takes the nested path exactly when
\* the history buffer is not empty at entry.  A scope entered with an
\* empty buffer takes the baseline path also when another scope is open:
\* when it ends the buffer is left as it is, so that it still holds the
\* lines loaded from the file of the scope and the lines added in it.
C23_NestedIffHistoryLoaded ==
    /\ \A i \in 1..Len(scopes) :
            scopes[i].path # "disabled" =>
                (scopes[i].path = "nested" <=> scopes[i].entry_history # <<>>)
    /\ /\ hev.op \in {"exit", "abort"}
       /\ hev.scope.path # "disabled"
       /\ hev.scope.entry_history = <<>>
       => /\ hev.scope.path = "baseline"
          /\ hev.scope.plain =>
                 history = hev.scope.preload \o hev.scope.added

\* a scope entered with an empty buffer while another scope was open has
\* ended, and the line loaded from its file and the line added in it are
\* in the buffer of the enclosing scope
C23_Witness ==
    /\ hev.op = "exit"
    /\ hev.scope.path = "baseline"
    /\ hev.scope.plain
    /\ Len(scopes) = 1
    /\ hev.scope.preload = <<"b">>
    /\ hev.scope.added = <<"a">>
    /\ history = <<"b", "a">>

(***************************************************************************)
(* Claims about the completion callback (checked under SpecComplete).      *)
(***************************************************************************)
\* element i (from 0) of a stored match list, None when there is none
ElementOrNone(matches, i) ==
    IF matches.kind = "value" /\ i < Len(matches.value)
    THEN Value(matches.value[i + 1])
    ELSE PyNone

\* C24: a call with index 0 stores the match list it computed and returns
\* its first element, or None when the list is empty, is not a list or
\* could not be computed; a call with index i > 0 returns element i of the
\* list of the latest call with index 0, or None when that call left no
\* list or i is past its end.
C24_IndexProtocol ==
    cev.op = "complete" =>
        /\ cev.result = ElementOrNone(cev.matches, cev.index)
        /\ cev.index = 0 /\ cev.matches.kind = "value" =>
                latest_matches = cev.matches

\* C25: after a call with index 0 for a token that starts the line, the
\* stored candidates are exactly the command names of the shell that start
\* with the token, whatever the line buffer is.
C25_CommandNameCandidates ==
    cev.op = "complete" /\ cev.index = 0 /\ cev.begidx = 0 =>
        /\ latest_matches.kind = "value"
        /\ {latest_matches.value[i] : i \in 1..Len(latest_matches.value)}
               = {n \in do_methods : startswith(n, cev.token)}

(***************************************************************************)
(* Claims about command resolution (checked under SpecFind).               *)
(***************************************************************************)
Looked == found.result.kind # "idle"

\* C5 (as claimed): every lookup terminates with a handler or None: it
\* never runs into unbounded recursion, and it never nests deeper than the
\* number of alias providers of the shell.
C5_Terminates ==
    Looked =>
        /\ found.result.kind # "RecursionError"
        /\ found.result.depth <= Cardinality(DOMAIN alias_methods)

\* position of alias_X in the enumeration of the shell's members
AliasPosition(al, X) ==
    CHOOSE i \in 1..Len(AllAliasMethods(al)) : AllAliasMethods(al)[i] = X

\* C6 (as claimed): for every provider alias_X that reports the string just
\* looked up, the lookup gave what a lookup of X gives, whatever other
\* handlers and providers the shell has.
C6_AliasSameAsTarget ==
    Looked =>
        \A X \in DOMAIN alias_methods :
            alias_methods[X].reports = found.command_name =>
                Outcome(found.result)
                    = Outcome(find_command(do_methods, alias_methods, X, 0))

\* C6 (amended): the same, for a looked-up string that names no do_ handler
\* and for the provider alias_X that is the first one enumerated to report
\* it, every provider enumerated before alias_X having returned another
\* string.
C6_FirstAliasSameAsTarget ==
    Looked /\ found.command_name \notin do_methods =>
        \A X \in DOMAIN alias_methods :
            /\ alias_methods[X].reports = found.command_name
            /\ \A Y \in DOMAIN alias_methods :
                    AliasPosition(alias_methods, Y) < AliasPosition(alias_methods, X)
                        => alias_methods[Y].reports \notin {found.command_name, RAISES}
            => Outcome(found.result)
                    = Outcome(find_command(do_methods, alias_methods, X, 0))

\* a lookup that went through the first of two providers reporting the
\* same string and ended at the handler of that provider's target
C6_Witness ==
    /\ Looked
    /\ found.command_name \notin do_methods
    /\ found.result.kind = "handler"
    /\ found.result.depth >= 1
    /\ Cardinality({X \in DOMAIN alias_methods :
                        alias_methods[X].reports = found.command_name}) >= 2

(***************************************************************************)
(* Claims about the run loop and nesting (checked under Spec).             *)
(***************************************************************************)
\* the steps that end a run whose loop was about to test its flag: the
\* test finds the flag set and run returns, or the user interrupts run
\* at that point
LeaveOps == {"return", "run_interrupt"}

\* the active shells are nested through run_subshell, each one run once:
\* every shell's _parent is the shell whose handler runs it
ProperNesting ==
    /\ stack # <<>>
    /\ \A i, j \in 1..Len(stack) : i # j => stack[i] # stack[j]
    /\ parent[stack[1]] = NoParent
    /\ \A i \in 2..Len(stack) : parent[stack[i]] = stack[i - 1]

ExitCalled == ev.handler = "exit" /\ ev.op \in {"invoke", "handler_error"}

\* C1 (as claimed): when do_exit has been invoked in a shell run through
\* run_subshell, whatever the depth, _done is true on it and on every
\* shell whose run is active below it, at the point where its loop tests
\* its own flag next.
C1_ExitSetsAllAncestors ==
    ExitCalled => \A i \in 1..Len(stack) : done[stack[i]]

C7_NoFailureEscapes ==
    ev.op \notin {"AliasError", "RecursionError"}

ArityFits(handler, params) ==
    LET R == count_required_params(Signature[handler])
        T == count_params(Signature[handler])
        k == Len(params)
    IN  k >= R /\ (T > 0 \/ k = 0)

\* C9: a resolved handler is invoked only for a token count k with k >= R
\* and (T > 0 or k = 0); for any other count the step is an arity error,
\* which invokes nothing, leaves every _done flag and the nesting as they
\* are, so that the loop reads the next line.
C9_ArityErrorSkipsHandler ==
    [][ /\ ev'.op \in {"invoke", "subshell", "handler_error",
                       "handler_interrupt", "SystemExit"}
            => ArityFits(ev'.handler, ev'.params)
        /\ ev'.handler # "" /\ ~ArityFits(ev'.handler, ev'.params)
            => ev'.op = "arity_error"
        /\ ev'.op = "arity_error" =>
            /\ ~ArityFits(ev'.handler, ev'.params)
            /\ done' = done
            /\ stack' = stack
            /\ ~done'[stack'[Len(stack')]]
      ]_vars

\* an arity error for a handler without parameters given a token, and one
\* for a handler given fewer tokens than it requires
C9_WitnessTooMany ==
    /\ ev.op = "arity_error"
    /\ count_params(Signature[ev.handler]) = 0
    /\ Len(ev.params) > 0
    /\ ~done[ev.shell]

C11_ExhaustedStreamIsExit ==
    [][ /\ /\ ev'.op \in {"eof", "eof_error"}
           /\ input_stream[Top] = "stream"
           => /\ ev'.op = "eof"
              /\ remaining = 0
              /\ ~ev'.error
              /\ ev'.handler = ""
              /\ stack' = stack
              /\ \A i \in 1..Len(stack) : done'[stack[i]]
        /\ ev.op = "eof" => ev'.op \in LeaveOps /\ done' = done
      ]_vars

\* the steps that begin with _get_input returning a line
LineOps == {"skip_empty", "skip_comment", "parse_error", "not_found",
            "arity_error", "invoke", "subshell", "handler_error",
            "handler_interrupt", "SystemExit", "AliasError",
            "RecursionError"}

\* the steps in which an exception may strike after readline() returned
LostLineOps == {"interrupt", "input_error", "input_error_interrupt",
                "run_interrupt"}

\* C12: a line is read only by the run at the top of the stack, whose
\* shell is not done, so that a shell reads no line while a run it started
\* through run_subshell has not returned; a line read from a finite stream
\* advances the stream by exactly one line, whichever shell reads it; a
\* step that returns no line leaves the stream where it is, unless an
\* exception struck the reading shell after readline() had taken the
\* line, which is then lost to every shell; run_subshell starts the child
\* on the input source of its parent, on top of it, and a run_subshell cut
\* short by an interrupt starts no reader and changes the input source of
\* no active shell.
C12_OneReaderInOrder ==
    [][ /\ ev'.op \in LineOps =>
            /\ stack # <<>>
            /\ ev'.shell = stack[Len(stack)]
            /\ ~done[ev'.shell]
            /\ remaining' = IF input_stream[ev'.shell] = "stream"
                            THEN remaining - 1 ELSE remaining
            /\ remaining' >= 0
        /\ ev'.op \notin LineOps \cup {"run"} =>
            \/ remaining' = remaining
            \/ /\ ev'.op \in LostLineOps
               /\ ev'.shell = stack[Len(stack)]
               /\ ~done[ev'.shell]
               /\ input_stream[ev'.shell] = "stream"
               /\ remaining' = remaining - 1
               /\ remaining' >= 0
        /\ ev'.op = "subshell" =>
            /\ Len(stack') = Len(stack) + 1
            /\ SubSeq(stack', 1, Len(stack)) = stack
            /\ input_stream'[stack'[Len(stack')]] = input_stream[ev'.shell]
            /\ parent'[stack'[Len(stack')]] = ev'.shell
        /\ ev'.op = "handler_interrupt" =>
            /\ stack' = stack
            /\ parent' = parent
            /\ \A i \in 1..Len(stack) :
                    input_stream'[stack[i]] = input_stream[stack[i]]
      ]_vars

\* a stream of three lines: the first shell read the first line and ran a
\* sub-shell, which read the second and closed; the first shell has read
\* the third
C12_Witness ==
    /\ ev.op = "invoke" /\ ev.handler = "echo"
    /\ stack = <<1>>
    /\ input_stream[1] = "stream" /\ input_stream[2] = "stream"
    /\ remaining = 0
    /\ parent[2] = 1 /\ done[2] /\ ~done[1]

\* the steps of _get_input that return no line
InputOps == {"interrupt", "eof", "eof_error", "input_error", "eof_interrupt",
             "input_error_interrupt"}

\* the steps in which KeyboardInterrupt leaves run, caught by no clause
\* of _get_input
InterruptEscapeOps == {"run_interrupt", "eof_interrupt",
                       "input_error_interrupt"}

\* the steps a shell whose loop goes on may take next
LoopOps == LineOps \cup InputOps \cup {"run_interrupt"}

\* C13 (as claimed): a step in which the handler raises, whatever it
\* raises, or is interrupted leaves the nesting as it is and lets nothing
\* reach the host.
C13_AnyHandlerFailureContained ==
    [][ ev'.op \in {"handler_error", "handler_interrupt", "SystemExit"} =>
            /\ stack' = stack
            /\ escaped' = escaped
      ]_vars

\* C13 (amended): a step in which the handler raises an exception
\* deriving from Exception or is interrupted leaves the nesting as it is
\* and lets nothing reach the host; the _done flags keep the values they
\* had when the handler raised (for every handler but exit and close,
\* which set flags before they can fail or be interrupted, the values
\* before the step); when the shell is not done, the next step is taken
\* by the loop of the same shell.  An exception deriving from Exception
\* or an interrupt that leaves the run of a sub-shell is such a failure of
\* the handler that called run_subshell: it ends that one run and goes no
\* further.  Only an exception deriving neither from Exception nor from
\* KeyboardInterrupt ends every active run and reaches the host.
C13_HandlerFailureContained ==
    [][ /\ ev'.op \in {"handler_error", "handler_interrupt"} =>
            /\ stack' = stack
            /\ escaped' = escaped
            /\ ev'.handler \notin {"exit", "close"} => done' = done
            /\ ev'.error = (ev'.op = "handler_error")
        /\ /\ ev.op \in {"handler_error", "handler_interrupt"}
           /\ ~done[ev.shell]
           => /\ ev'.op \in LoopOps
              /\ ev'.shell = ev.shell
        /\ /\ ev'.op \in EscapeErrorOps \cup InterruptEscapeOps
           /\ Len(stack) >= 2
           => /\ stack' = SubSeq(stack, 1, Len(stack) - 1)
              /\ escaped' = escaped
              /\ ev'.op \notin {"eof_error", "eof_interrupt"} => done' = done
              /\ ev'.error = (ev'.op \in EscapeErrorOps
                                        \cup {"input_error_interrupt"})
        /\ ev'.op = "SystemExit" =>
            /\ stack' = <<>>
            /\ escaped' = "SystemExit"
            /\ done' = done
      ]_vars

\* the handler of a sub-shell has raised while the sub-shell and its
\* parent were running, and both still run
C13_Witness ==
    /\ ev.op = "handler_error" /\ ev.handler = "fail"
    /\ ev.error
    /\ Len(stack) >= 2
    /\ \A i \in 1..Len(stack) : ~done[stack[i]]
    /\ escaped = "none"

\* C14: a line the tokenizer rejects and a line whose command
\* _find_command resolves to None are reported through self.error and
\* dropped: no handler is invoked, no flag and no nesting changes, nothing
\* reaches the host, and the step after it is the next _get_input of the
\* same shell.  A command line with a name that is no command of the shell
\* and that no alias provider reports is such a line whenever the lookup
\* returns.
C14_BadLineSkipped ==
    [][ /\ ev'.op \in {"parse_error", "not_found"} =>
            /\ ev'.error
            /\ ev'.handler = ""
            /\ done' = done
            /\ stack' = stack
            /\ escaped' = escaped
        /\ ev'.op \in LineOps /\ ev'.line = "garbled" => ev'.op = "parse_error"
        /\ /\ ev'.op \in LineOps \ {"AliasError", "RecursionError"}
           /\ ev'.line = "cmd"
           /\ ev'.handler = ""
           => ev'.op = "not_found"
        /\ ev.op \in {"parse_error", "not_found"} =>
            /\ ev'.op \in LoopOps
            /\ ev'.shell = ev.shell
      ]_vars

\* a sub-shell has reported a command that was not found while it and its
\* parent were running
C14_WitnessNotFound ==
    /\ ev.op = "not_found"
    /\ ev.line = "cmd"
    /\ ev.error
    /\ Len(stack) >= 2
    /\ \A i \in 1..Len(stack) : ~done[stack[i]]

\* C15 (as claimed): a line that is empty, that holds white space only or
\* that starts with comment_delimiter makes the loop call no handler and
\* report no error, and changes no _done flag, whether it was typed or
\* read from a stream.
C15_CommentAndBlankSilent ==
    [][ ev'.op \in LineOps /\ ev'.line \in {"empty", "blank", "comment"} =>
            /\ ~ev'.error
            /\ ev'.handler = ""
            /\ done' = done
      ]_vars

\* C16: no step sets a _done flag that is true back to false.
C16_DoneMonotonic ==
    [][ \A s \in Shells : done[s] => done'[s] ]_vars

\* run_subshell has been called on a shell that was done, and it still is
C16_Witness ==
    /\ ev.op = "subshell"
    /\ parent[Top] = ev.shell
    /\ done[Top]

\* C19: when run is called on a shell whose _done flag is set, the step
\* after the call ends that run: no line is read, no handler is invoked
\* and no flag changes.
C19_RunOnDoneFallsThrough ==
    [][ ev.op \in {"run", "subshell"} /\ stack # <<>> /\ done[Top] =>
            /\ ev'.op \in LeaveOps
            /\ ev'.shell = Top
            /\ stack' = SubSeq(stack, 1, Len(stack) - 1)
            /\ remaining' = remaining
            /\ done' = done
      ]_vars

\* run_subshell has been called a second time on a shell that is done,
\* with lines left in the stream it shares with its parent
C19_Witness ==
    /\ ev.op = "subshell"
    /\ Len(stack) = 2
    /\ done[Top] /\ ~done[stack[1]]
    /\ input_stream[Top] = "stream"
    /\ remaining > 0

\* the steps with which a run ends: it returns, or an exception leaves it
RunEndOps == {"return", "eof_error", "RecursionError", "AliasError",
              "SystemExit"} \cup InterruptEscapeOps

\* C26: when no method of the host raises and the user does not
\* interrupt, a run over a finite stream ends by returning with the _done
\* flag of its shell set, every iteration before having consumed a line
\* of the stream or set the flag: no run is left otherwise.
C26_RunReturnsDone ==
    /\ ev.op \in RunEndOps \ ({"AliasError", "SystemExit"}
                               \cup InterruptEscapeOps)
    /\ input_stream[ev.shell] = "stream"
    =>
        /\ ev.op = "return"
        /\ done[ev.shell]
        /\ escaped = "none"

\* following _parent from shell s ends at a shell without parent within
\* `steps` steps
RECURSIVE ParentChainEnds(_, _)
ParentChainEnds(s, steps) ==
    IF s = NoParent THEN TRUE
    ELSE IF steps = 0 THEN FALSE
    ELSE ParentChainEnds(parent[s], steps - 1)

\* C27: in every reachable state the _parent pointers of every active
\* shell lead, without passing a shell twice, to a shell that has no
\* parent, whatever shell a handler passes to run_subshell.
C27_ParentChainAcyclic ==
    \A i \in 1..Len(stack) : ParentChainEnds(stack[i], NumShells)

(***************************************************************************)
(* Claims about parameter binding (checked under SpecBind).                *)
(***************************************************************************)
\* C8: a handler with R required and T total parameters (T > 0) given k
\* tokens receives the k tokens unchanged and in order when R <= k <= T,
\* and when k > T exactly T arguments: the first T-1 tokens unchanged, then
\* the trailing k-T+1 tokens joined with single spaces.
C8_BoundArguments ==
    LET k == Len(bound.params)
        T == bound.T
    IN  bound.check # "idle" /\ T > 0 =>
            /\ bound.R <= k /\ k <= T =>
                    bound.called /\ bound.args = bound.params
            /\ k > T /\ bound.R <= k =>
                    /\ bound.called
                    /\ Len(bound.args) = T
                    /\ \A i \in 1..(T - 1) : bound.args[i] = bound.params[i]
                    /\ bound.args[T] = Join(SubSeq(bound.params, T, k))

====
